---- MODULE Spec2Model ----
(***************************************************************************)
(* Entity hierarchy of game::components (Entities.hpp): the Hierarchy and  *)
(* LocalToParent component tables of one entt::registry and the operations *)
(* GetParent, SetParent and ClearParent on them.                           *)
(*                                                                         *)
(* The Hierarchy table is kept as the registry keeps it: a packed array in *)
(* which a removed component is replaced by the last one.  SetParent holds *)
(* a pointer into that array across removals, so the array order decides   *)
(* whether the pointer still designates the entity's component.            *)
(*                                                                         *)
(* Calls that break a precondition of the registry (get<> or remove<> of a *)
(* component the entity does not hold, an access through an invalidated    *)
(* pointer) have undefined behaviour.  Every such call is resolved by a    *)
(* choice c: the process halts (c.halt), or it goes on with the lookup     *)
(* designating no component (reads arbitrary, writes lost), the removal    *)
(* removing nothing, the stale pointer reading and writing the vacated     *)
(* slot.                                                                   *)
(***************************************************************************)
EXTENDS Integers, Sequences, FiniteSets, TLC

\* bounds of the exploration: live entities, length of the recorded runs, calls per run,
\* calls before a rotation is calculated
NumEntities == 3
HistLen == 3
MaxCalls == 6
RotCalls == 2

Null == 0
Entities == 1..NumEntities
EntityOrNull == Entities \cup {Null}

\* struct Hierarchy, default-constructed
NullH == [Parent |-> Null, Previous |-> Null, Next |-> Null, FirstChild |-> Null]

VARIABLES hier, hpool, ltp, rot, halted, last, hist, calls

vars == <<hier, hpool, ltp, rot, halted, last, hist, calls>>

\* RotationEulerXYZ::Value on one axis, in degrees
RotValues == {10, 350}

\* the resolutions of undefined behaviour within one call
Choices == [halt : BOOLEAN, guard : {"pass", "reject"}, garbage : BOOLEAN]

----------------------------------------------------------------------------
\* The registry's component tables

\* registry.has<Hierarchy>(x) / try_get<Hierarchy>(x) != nullptr
InPool(pool, x) == \E i \in 1..Len(pool) : pool[i] = x

PoolIndex(pool, x) == CHOOSE i \in 1..Len(pool) : pool[i] = x

\* removal from the packed array: the last element takes the vacated slot
SwapPop(pool, x) ==
    LET n == Len(pool)
        i == PoolIndex(pool, x)
    IN  [j \in 1..(n - 1) |-> IF j = i THEN pool[n] ELSE pool[j]]

\* the call record m notes in m.ub what went against the registry's rules:
\* "get" a get<Hierarchy> of null or of an entity without the component,
\* "rm" a remove<> of a component the entity does not hold, "stale" an access
\* through `hierarchy` after its component was moved, "ref" an access through
\* `hierarchy` after another entity's Hierarchy was removed or attached
Flag(m, k) == [m EXCEPT !.ub = @ \cup {k}]

\* an operation with undefined behaviour of kind k: halt, or go on as cont
UB(m, c, k, cont) ==
    IF c.halt THEN [Flag(m, k) EXCEPT !.out = "halted"] ELSE Flag(cont, k)

\* an access through the pointer `hierarchy`
Touch(m) == IF m.moved THEN Flag(m, "ref") ELSE m

\* registry.remove<Hierarchy>(x) while the call holds a pointer to e's component
RemoveHierarchy(m, c, x, e) ==
    IF ~InPool(m.pool, x) THEN UB(m, c, "rm", m)
    ELSE LET dangles == m.ref = "live" /\ x # e /\ m.pool[Len(m.pool)] = e
             m1 == [m EXCEPT !.pool = SwapPop(m.pool, x),
                             !.h[x] = NullH,
                             !.ref = IF dangles THEN "dead" ELSE @,
                             !.d = m.h[e],
                             !.moved = @ \/ (m.ref # "none" /\ x # e)]
         IN  IF dangles THEN UB(m, c, "stale", m1) ELSE m1

\* registry.remove<LocalToParent>(x)
RemoveLocalToParent(m, c, x) ==
    IF x \in m.ltp THEN [m EXCEPT !.ltp = @ \ {x}] ELSE UB(m, c, "rm", m)

\* reads and writes through the pointer `hierarchy`
RefGet(m, e) == IF m.ref = "dead" THEN m.d ELSE m.h[e]

RefSet(m, e, v) == IF m.ref = "dead" THEN [m EXCEPT !.d = v] ELSE [m EXCEPT !.h[e] = v]

----------------------------------------------------------------------------
\* GetParent

GetParent(h, pool, e) == IF InPool(pool, e) THEN h[e].Parent ELSE Null

----------------------------------------------------------------------------
\* CalculateAbsoluteRotationEulerXYZ

\* math::FixAngles on one axis: the angle wrapped into [-180, 180)
FixAngles(x) == ((x + 180) % 360) - 180

\* the loop over the parents, were it to end at a parent without RotationEulerXYZ
RotationWalkStopsAtGap(h, pool, r, parent, fuel) ==
    IF parent = Null \/ parent \notin DOMAIN r THEN 0
    ELSE r[parent] + (IF GetParent(h, pool, parent) \in DOMAIN r
                      THEN r[GetParent(h, pool, parent)] ELSE 0)

\* the loop over the parents: what they add to rotationInDegrees
RECURSIVE RotationWalk(_, _, _, _, _)
RotationWalk(h, pool, r, parent, fuel) ==
    IF parent = Null \/ fuel = 0 THEN 0
    ELSE (IF parent \in DOMAIN r THEN r[parent] ELSE 0)
         + RotationWalk(h, pool, r, GetParent(h, pool, parent), fuel - 1)

\* the value returned for an entity that holds RotationEulerXYZ
CalculateAbsoluteRotationEulerXYZ(h, pool, r, e) ==
    FixAngles(r[e] + RotationWalk(h, pool, r, GetParent(h, pool, e), NumEntities))

----------------------------------------------------------------------------
\* SetParent, statement by statement

\* the ancestor loop, were it to test the immediate parent only
AncestorWalkImmediateOnly(h, pool, n, e, fuel) ==
    IF h[n].Parent = e THEN "reject" ELSE "pass"

\* the ancestor loop: from the Hierarchy of n upward, looking for e
RECURSIVE AncestorWalk(_, _, _, _, _)
AncestorWalk(h, pool, n, e, fuel) ==
    IF h[n].Parent = Null THEN "pass"
    ELSE IF h[n].Parent = e THEN "reject"
    ELSE IF ~InPool(pool, h[n].Parent) THEN "ub"
    ELSE IF fuel = 0 THEN "loop"
    ELSE AncestorWalk(h, pool, h[n].Parent, e, fuel - 1)

\* the checks before any change, were the self-parent test missing
AncestorCheckNoSelfTest(m, e, p, c) ==
    IF p = Null \/ ~InPool(m.pool, p) THEN m
    ELSE LET w == AncestorWalk(m.h, m.pool, p, e, NumEntities)
         IN  CASE w = "pass" -> m
               [] w = "reject" -> [m EXCEPT !.out = "rejected"]
               [] w = "loop" -> [m EXCEPT !.out = "hang"]
               [] OTHER -> UB(m, c, "get", IF c.guard = "reject"
                                            THEN [m EXCEPT !.out = "rejected"] ELSE m)

\* the checks before any change: self-parent, then the ancestor loop
AncestorCheck(m, e, p, c) ==
    IF e = p THEN [m EXCEPT !.out = "rejected"]
    ELSE IF p = Null \/ ~InPool(m.pool, p) THEN m
    ELSE LET w == AncestorWalk(m.h, m.pool, p, e, NumEntities)
         IN  CASE w = "pass" -> m
               [] w = "reject" -> [m EXCEPT !.out = "rejected"]
               [] w = "loop" -> [m EXCEPT !.out = "hang"]
               [] OTHER -> UB(m, c, "get", IF c.guard = "reject"
                                            THEN [m EXCEPT !.out = "rejected"] ELSE m)

PatchPrevious(m, e, c) ==
    IF m.out # "run" THEN m
    ELSE LET prev == RefGet(m, e).Previous
         IN  IF prev = Null THEN m
             ELSE IF ~InPool(m.pool, prev) THEN UB(m, c, "get", m)
             ELSE [m EXCEPT !.h[prev].Next = RefGet(m, e).Next]

PatchNext(m, e, c) ==
    IF m.out # "run" THEN m
    ELSE LET next == RefGet(m, e).Next
         IN  IF next = Null THEN m
             ELSE IF ~InPool(m.pool, next) THEN UB(m, c, "get", m)
             ELSE [m EXCEPT !.h[next].Previous = RefGet(m, e).Previous]

\* variant of PatchOldParent without the HasParent test of line 191: a childless
\* old parent loses its components even when it has a parent of its own
PatchOldParentCascade(m, e, c) ==
    IF m.out # "run" THEN m
    ELSE LET op == RefGet(m, e).Parent
         IN  IF op = Null \/ ~InPool(m.pool, op)
             THEN UB(m, c, "get", IF c.garbage /\ op \in m.ltp
                                  THEN [m EXCEPT !.ltp = @ \ {op}] ELSE m)
             ELSE LET m1 == IF m.h[op].FirstChild = e
                            THEN [m EXCEPT !.h[op].FirstChild = RefGet(m, e).Next]
                            ELSE m
                  IN  IF m1.h[op].FirstChild = Null
                      THEN LET m2 == RemoveHierarchy(m1, c, op, e)
                           IN  IF m2.out # "run" THEN m2
                               ELSE RemoveLocalToParent(Touch(m2), c, op)
                      ELSE m1

PatchOldParent(m, e, c) ==
    IF m.out # "run" THEN m
    ELSE LET op == RefGet(m, e).Parent
         IN  IF op = Null \/ ~InPool(m.pool, op)
             THEN UB(m, c, "get", IF c.garbage /\ op \in m.ltp
                                  THEN [m EXCEPT !.ltp = @ \ {op}] ELSE m)
             ELSE LET m1 == IF m.h[op].FirstChild = e
                            THEN [m EXCEPT !.h[op].FirstChild = RefGet(m, e).Next]
                            ELSE m
                  IN  IF m1.h[op].FirstChild = Null /\ m1.h[op].Parent = Null
                      THEN LET m2 == RemoveHierarchy(m1, c, op, e)
                           IN  IF m2.out # "run" THEN m2
                               ELSE RemoveLocalToParent(Touch(m2), c, op)
                      ELSE m1

ResetLinks(m, e) ==
    IF m.out # "run" THEN m
    ELSE RefSet(Touch(m), e, [RefGet(m, e) EXCEPT !.Parent = Null, !.Previous = Null, !.Next = Null])

Detach(m, e, p, c) ==
    IF m.out # "run" \/ ~InPool(m.pool, e) THEN m
    ELSE IF m.h[e].Parent = p THEN [m EXCEPT !.out = "noop"]
    ELSE ResetLinks(PatchOldParent(PatchNext(PatchPrevious(
             [m EXCEPT !.ref = "live"], e, c), e, c), e, c), e)

AddToParent(m, e, p, c) ==
    LET m1 == IF m.ref = "none"
              THEN [m EXCEPT !.pool = Append(@, e), !.h[e] = NullH, !.ref = "live"]
              ELSE m
        m2 == [m1 EXCEPT !.ltp = @ \cup {e}]
        m3 == RefSet(Touch(m2), e, [RefGet(m2, e) EXCEPT !.Parent = p])
        m4 == IF InPool(m3.pool, p) THEN m3
              ELSE [m3 EXCEPT !.pool = Append(@, p), !.h[p] = NullH, !.moved = TRUE]
        fc == m4.h[p].FirstChild
        m5 == IF fc = Null THEN m4
              ELSE LET a == IF InPool(m4.pool, fc)
                            THEN [m4 EXCEPT !.h[fc].Previous = e]
                            ELSE UB(m4, c, "get", m4)
                   IN  IF a.out # "run" THEN a
                       ELSE RefSet(Touch(a), e, [RefGet(a, e) EXCEPT !.Next = fc, !.Previous = Null])
    IN  IF m5.out # "run" THEN m5 ELSE [m5 EXCEPT !.h[p].FirstChild = e]

\* the clearing branch, were it to remove the Hierarchy without looking for children
RemoveFromParentAlways(m, e, c) ==
    LET m1 == RemoveLocalToParent(m, c, e)
    IN  IF m1.out # "run" THEN m1 ELSE RemoveHierarchy(Touch(m1), c, e, e)

\* the clearing branch: LocalToParent goes, Hierarchy goes unless there are children
RemoveFromParent(m, e, c) ==
    LET m1 == RemoveLocalToParent(m, c, e)
        m2 == Touch(m1)
    IN  IF m1.out # "run" THEN m1
        ELSE IF RefGet(m2, e).FirstChild # Null THEN m2
        ELSE RemoveHierarchy(m2, c, e, e)

Attach(m, e, p, c) ==
    IF m.out # "run" THEN m
    ELSE IF p # Null THEN AddToParent(m, e, p, c)
    ELSE IF m.ref # "none" THEN RemoveFromParent(m, e, c)
    ELSE m

\* the whole call, from the tables (h, pool, l)
SetParentResult(h, pool, l, e, p, c) ==
    LET m0 == [h |-> h, pool |-> pool, ltp |-> l, ref |-> "none", d |-> NullH,
               moved |-> FALSE, ub |-> {}, out |-> "run"]
        m == Attach(Detach(AncestorCheck(m0, e, p, c), e, p, c), e, p, c)
    IN  IF m.out = "run" THEN [m EXCEPT !.out = "done"] ELSE m

----------------------------------------------------------------------------
\* The state machine

\* the results one call can have: a call that meets no undefined behaviour has
\* one result, the same under every choice; the others halt or go on
Outcomes(h, pool, l, e, p) ==
    LET strict == SetParentResult(h, pool, l, e, p, [halt |-> TRUE, guard |-> "pass", garbage |-> FALSE])
    IN  IF strict.out # "halted" THEN {strict}
        ELSE {strict} \cup {SetParentResult(h, pool, l, e, p, c) : c \in {x \in Choices : ~x.halt}}

Init ==
    /\ hier = [e \in Entities |-> NullH]
    /\ hpool = <<>>
    /\ ltp = {}
    /\ rot = <<>>
    /\ halted = FALSE
    /\ last = [op |-> "none", e |-> Null, p |-> Null, from |-> Null, out |-> "done", ret |-> Null]
    /\ hist = <<>>
    /\ calls = 0

\* one call of SetParent(registry, e, p), made as operation op, by an entity
\* whose parent was `from`; a call that
\* halts (or never leaves the ancestor loop) ends the process: the tables stay
\* as they were before it and no call follows
Call(op, e, p) ==
    /\ ~halted
    /\ calls < MaxCalls
    /\ calls' = calls + 1
    /\ \E r \in Outcomes(hier, hpool, ltp, e, p) :
         LET dead == r.out \in {"halted", "hang"}
         IN  /\ hier' = IF dead THEN hier ELSE r.h
             /\ hpool' = IF dead THEN hpool ELSE r.pool
             /\ ltp' = IF dead THEN ltp ELSE r.ltp
             /\ halted' = dead
             /\ last' = [op |-> op, e |-> e, p |-> p, from |-> GetParent(hier, hpool, e),
                          out |-> r.out, ret |-> Null]
    /\ UNCHANGED rot

SetParent(e, p) == Call("SetParent", e, p) /\ UNCHANGED hist

ClearParent(e) == Call("ClearParent", e, Null) /\ UNCHANGED hist

GetParentCall(e) ==
    /\ ~halted
    /\ last' = [op |-> "GetParent", e |-> e, p |-> Null, from |-> Null, out |-> "done",
                ret |-> GetParent(hier, hpool, e)]
    /\ UNCHANGED <<hier, hpool, ltp, rot, halted, hist, calls>>

Next ==
    \/ \E e \in Entities, p \in Entities : SetParent(e, p)
    \/ \E e \in Entities : ClearParent(e)
    \/ \E e \in Entities : GetParentCall(e)

Spec == Init /\ [][Next]_vars

\* The runs of at most HistLen calls from the empty registry, with the calls recorded

TracedSetParent(e, p) ==
    /\ Len(hist) < HistLen
    /\ Call("SetParent", e, p)
    /\ hist' = Append(hist, <<e, p>>)

TracedClearParent(e) ==
    /\ Len(hist) < HistLen
    /\ Call("ClearParent", e, Null)
    /\ hist' = Append(hist, <<e, Null>>)

NextTraced ==
    \/ \E e \in Entities, p \in Entities : TracedSetParent(e, p)
    \/ \E e \in Entities : TracedClearParent(e)

SpecTraced == Init /\ [][NextTraced]_vars

\* The runs of at most RotCalls calls over a RotationEulerXYZ table written
\* by the editing code, followed by calculations of absolute rotations

InitRot ==
    /\ hier = [e \in Entities |-> NullH]
    /\ hpool = <<>>
    /\ ltp = {}
    /\ \E S \in SUBSET Entities : rot \in [S -> RotValues]
    /\ halted = FALSE
    /\ last = [op |-> "none", e |-> Null, p |-> Null, from |-> Null, out |-> "done", ret |-> Null]
    /\ hist = <<>>
    /\ calls = 0

RotSetParent(e, p) == calls < RotCalls /\ Call("SetParent", e, p) /\ UNCHANGED hist

RotClearParent(e) == calls < RotCalls /\ Call("ClearParent", e, Null) /\ UNCHANGED hist

\* registry.get<RotationEulerXYZ>(e) needs e to hold the component
CalculateCall(e) ==
    /\ ~halted
    /\ IF e \in DOMAIN rot
       THEN /\ last' = [op |-> "Calculate", e |-> e, p |-> Null, from |-> Null, out |-> "done",
                        ret |-> CalculateAbsoluteRotationEulerXYZ(hier, hpool, rot, e)]
            /\ halted' = FALSE
       ELSE /\ last' = [op |-> "Calculate", e |-> e, p |-> Null, from |-> Null,
                        out |-> "halted", ret |-> Null]
            /\ halted' = TRUE
    /\ UNCHANGED <<hier, hpool, ltp, rot, hist, calls>>

NextRot ==
    \/ \E e \in Entities, p \in Entities : RotSetParent(e, p)
    \/ \E e \in Entities : RotClearParent(e)
    \/ \E e \in Entities : CalculateCall(e)

SpecRot == InitRot /\ [][NextRot]_vars

TypeOK ==
    /\ hier \in [Entities -> [Parent : EntityOrNull, Previous : EntityOrNull,
                              Next : EntityOrNull, FirstChild : EntityOrNull]]
    /\ \A i, j \in 1..Len(hpool) : hpool[i] \in Entities /\ (i # j => hpool[i] # hpool[j])
    /\ ltp \subseteq Entities
    /\ halted \in BOOLEAN
    /\ \A e \in Entities : ~InPool(hpool, e) => hier[e] = NullH
----------------------------------------------------------------------------
\* Vocabulary of the properties

\* the step is a SetParent or ClearParent call
IsCall == calls' = calls + 1

Tables == <<hier, hpool, ltp>>

\* the entities reached from n by following Parent links
RECURSIVE Up(_, _, _)
Up(h, n, k) ==
    IF k = 0 \/ n = Null THEN {}
    ELSE IF h[n].Parent = Null THEN {}
    ELSE {h[n].Parent} \cup Up(h, h[n].Parent, k - 1)

AncestorsOf(h, n) == Up(h, n, NumEntities + 1)

\* the walk from x along Next
RECURSIVE Siblings(_, _, _)
Siblings(h, x, k) ==
    IF k = 0 \/ x = Null THEN <<>>
    ELSE <<x>> \o Siblings(h, h[x].Next, k - 1)

\* the child list of P: from FirstChild along Next
ChildList(h, P) == Siblings(h, h[P].FirstChild, NumEntities + 1)

Occurrences(s, a) == Cardinality({i \in DOMAIN s : s[i] = a})

ChildrenOf(h, P) == {x \in Entities : h[x].Parent = P}

\* what the call SetParent(e, p) does against the registry's rules, over its outcomes
CallFlags(h, pool, l, e, p) == UNION {r.ub : r \in Outcomes(h, pool, l, e, p)}

\* the GetParent steps from n to the null entity
RECURSIVE ParentSteps(_, _, _, _)
ParentSteps(h, pool, n, fuel) ==
    IF n = Null THEN 0
    ELSE IF fuel = 0 THEN 1
    ELSE 1 + ParentSteps(h, pool, GetParent(h, pool, n), fuel - 1)

----------------------------------------------------------------------------
\* C1: the parent graph is acyclic after any sequence of SetParent and
\* ClearParent calls from the empty registry: no entity is its own Parent and
\* following Parent links upward from an entity never returns to it.
C1_Acyclic ==
    \A e \in Entities : hier[e].Parent # e /\ e \notin AncestorsOf(hier, e)

\* a chain of two links stands and the call that would close it into a cycle was made
C1_Witness ==
    /\ last.op = "SetParent" /\ last.out = "rejected" /\ last.p # Null /\ last.e # last.p
    /\ hier[last.p].Parent # Null /\ hier[last.p].Parent # last.e
    /\ hier[hier[last.p].Parent].Parent = last.e

C3_RejectedUnchanged ==
    [][IsCall =>
         /\ (last'.e = last'.p \/ last'.e \in AncestorsOf(hier, last'.p))
                => (last'.out = "rejected" /\ ~halted')
         /\ last'.out = "rejected" => Tables' = Tables]_vars

\* a self-parent call on an entity that has a parent and a child was rejected
C3_Witness ==
    /\ last.op = "SetParent" /\ last.out = "rejected" /\ last.e = last.p
    /\ hier[last.e].Parent # Null /\ hier[last.e].FirstChild # Null
\* C4: for A # B with A not an ancestor of B, after SetParent(A,B) returns
\* GetParent(A) = B and the child list of B holds A exactly once; after a
\* ClearParent(A) that follows, GetParent(A) = null and the child list of B
\* no longer holds A.
C4_SetThenClear ==
    [][(IsCall /\ ~halted') =>
         LET a == last'.e
             b == last'.p
             ob == GetParent(hier, hpool, a)
         IN  /\ (last'.op = "SetParent" /\ a # b /\ a \notin AncestorsOf(hier, b))
                  => /\ GetParent(hier', hpool', a) = b
                     /\ Occurrences(ChildList(hier', b), a) = 1
             /\ (last'.op = "ClearParent" /\ ob # Null)
                  => /\ GetParent(hier', hpool', a) = Null
                     /\ Occurrences(ChildList(hier', ob), a) = 0]_vars

\* C5: where E has a child, a SetParent(E,P) that is not rejected, to a P other
\* than E's parent (also when E has no parent), completes with GetParent(E) = P,
\* E.FirstChild unchanged, every child of E still with Parent = E and its
\* Previous and Next links unchanged.
C5_ChildrenFollow ==
    [][(/\ IsCall /\ last'.op = "SetParent"
        /\ hier[last'.e].FirstChild # Null
        /\ last'.p # GetParent(hier, hpool, last'.e)
        /\ last'.e # last'.p
        /\ last'.e \notin AncestorsOf(hier, last'.p))
         => /\ ~halted' /\ last'.out = "done"
            /\ GetParent(hier', hpool', last'.e) = last'.p
            /\ hier'[last'.e].FirstChild = hier[last'.e].FirstChild
            /\ \A ch \in ChildrenOf(hier, last'.e) :
                 /\ hier'[ch].Parent = last'.e
                 /\ hier'[ch].Previous = hier[ch].Previous
                 /\ hier'[ch].Next = hier[ch].Next]_vars

\* C6: an entity holds a Hierarchy component if and only if its Parent is
\* non-null or another entity has it as Parent, which is when its FirstChild
\* is non-null.
C6_HierarchyIffRelated ==
    \A e \in Entities :
        /\ InPool(hpool, e) <=> (hier[e].Parent # Null \/ ChildrenOf(hier, e) # {})
        /\ ChildrenOf(hier, e) # {} <=> hier[e].FirstChild # Null

\* C7: an entity holds LocalToParent if and only if it holds Hierarchy; an
\* entity that only has children holds both or neither.
C7_LocalToParentIffHierarchy ==
    \A e \in Entities : e \in ltp <=> InPool(hpool, e)

\* C8: sibling links are symmetric among the holders of Hierarchy:
\* A.Next = B if and only if B.Previous = A.
C8_SiblingSymmetry ==
    \A a, b \in Entities :
        (InPool(hpool, a) /\ InPool(hpool, b))
            => (hier[a].Next = b <=> hier[b].Previous = a)

\* C9: for every P with a FirstChild, the list FirstChild, Next, Next, ... ends,
\* starts with an entity whose Previous is null, holds no entity twice, and
\* holds exactly the entities whose Parent is P; an entity whose Parent is null
\* has Previous = Next = null.
C9_ChildListValid ==
    /\ \A P \in Entities :
         hier[P].FirstChild # Null =>
           LET l == ChildList(hier, P)
           IN  /\ Len(l) <= NumEntities
               /\ hier[l[1]].Previous = Null
               /\ \A i, j \in DOMAIN l : i # j => l[i] # l[j]
               /\ {l[i] : i \in DOMAIN l} = ChildrenOf(hier, P)
    /\ \A e \in Entities :
         hier[e].Parent = Null => (hier[e].Previous = Null /\ hier[e].Next = Null)

\* C10: where B has exactly one child A and no parent, ClearParent(A) completes
\* and leaves B with neither Hierarchy nor LocalToParent; so does a
\* SetParent(A,C) that moves A to another parent.
C10_CascadeCleanup ==
    [][LET a == last'.e
           b == GetParent(hier, hpool, a)
       IN  (/\ IsCall
            /\ b # Null /\ hier[b].Parent = Null /\ ChildrenOf(hier, b) = {a}
            /\ \/ last'.op = "ClearParent"
               \/ /\ last'.op = "SetParent" /\ last'.p # b /\ last'.p # a
                  /\ a \notin AncestorsOf(hier, last'.p))
           => /\ ~halted' /\ last'.out = "done"
              /\ ~InPool(hpool', b) /\ b \notin ltp']_vars
\* C11: SetParent is idempotent: a SetParent(A,B) that directly follows a
\* SetParent(A,B) leaves every Hierarchy field and the holders of
\* Hierarchy and LocalToParent as the first call left them, with A once in
\* the child list of B when the first call attached it.
C11_Idempotent ==
    [][(/\ IsCall /\ ~halted' /\ last'.op = "SetParent"
        /\ last.op = "SetParent" /\ last.e = last'.e /\ last.p = last'.p)
         => /\ Tables' = Tables
            /\ last.out \in {"done", "noop"}
                 => Occurrences(ChildList(hier', last'.p), last'.e) = 1]_vars

\* C12: a SetParent(E,P) that is neither rejected nor a repeat puts E at the
\* head of the child list of P: afterwards P.FirstChild = E, E.Previous = null,
\* E.Next is the FirstChild P had before the call, and that former first child
\* has Previous = E.
C12_HeadInsertion ==
    [][(/\ IsCall /\ ~halted' /\ last'.op = "SetParent"
        /\ last'.e # last'.p
        /\ last'.e \notin AncestorsOf(hier, last'.p)
        /\ GetParent(hier, hpool, last'.e) # last'.p)
         => LET E == last'.e
                P == last'.p
                fc == hier[P].FirstChild
            IN  /\ hier'[P].FirstChild = E
                /\ hier'[E].Previous = Null
                /\ hier'[E].Next = fc
                /\ fc # Null => hier'[fc].Previous = E]_vars
\* C13: CalculateAbsoluteRotationEulerXYZ(E) returns FixAngles of the sum of
\* E's RotationEulerXYZ value and the value of every ancestor of E that holds
\* the component; for a chain of three with 10, 350, 10 the sum 370 is
\* brought into the canonical range.
RECURSIVE SumOver(_, _)
SumOver(r, S) ==
    IF S = {} THEN 0
    ELSE LET x == CHOOSE y \in S : TRUE IN r[x] + SumOver(r, S \ {x})

C13_AbsoluteRotation ==
    (last.op = "Calculate" /\ last.out = "done") =>
        LET anc == AncestorsOf(hier, last.e)
            sum == rot[last.e] + SumOver(rot, anc \cap DOMAIN rot)
        IN  /\ last.ret = FixAngles(sum)
            /\ last.ret \in -180..179
            /\ (last.ret - sum) % 360 = 0
            /\ (Cardinality(anc) = 2 /\ anc \subseteq DOMAIN rot /\ sum = 370)
                 => last.ret = 10

\* the rotation of the last of a chain of three with 10, 350, 10 was calculated
C13_Witness ==
    /\ last.op = "Calculate" /\ last.out = "done" /\ last.ret = 10
    /\ hier[last.e].Parent # Null /\ hier[hier[last.e].Parent].Parent # Null
    /\ rot[last.e] = 10
    /\ hier[last.e].Parent \in DOMAIN rot /\ rot[hier[last.e].Parent] = 350
    /\ hier[hier[last.e].Parent].Parent \in DOMAIN rot
    /\ rot[hier[hier[last.e].Parent].Parent] = 10
C15_LookupsValid ==
    [][IsCall =>
         /\ "get" \notin CallFlags(hier, hpool, ltp, last'.e, last'.p)
         /\ \A e \in Entities : hier[e].Parent # Null => InPool(hpool, hier[e].Parent)]_vars

\* C16: every remove<Hierarchy> and remove<LocalToParent> made inside
\* SetParent and ClearParent is of an entity that holds the component at
\* that moment.
C16_RemovalsValid ==
    [][IsCall => "rm" \notin CallFlags(hier, hpool, ltp, last'.e, last'.p)]_vars

\* C17: the ancestor walks end: the loop of the cycle check, started at any
\* holder of a Hierarchy for any entity, ends at a null Parent or at the
\* entity, and the GetParent loop from any entity reaches the null entity,
\* within as many steps as there are entities.
C17_WalksTerminate ==
    /\ last.out # "hang"
    /\ \A n \in Entities :
         /\ ParentSteps(hier, hpool, n, NumEntities + 1) <= NumEntities
         /\ InPool(hpool, n) =>
              \A e \in Entities \ {n} :
                  AncestorWalk(hier, hpool, n, e, NumEntities) \in {"pass", "reject"}

\* C18: SetParent(E,P) changes the Parent of no entity but E, and changes the
\* components of E, E's old parent, E's old Previous and Next, P and the former
\* first child of P only; an old parent that has a parent of its own keeps its
\* Hierarchy when it loses its last child; GetParent changes nothing.
C18_Frame ==
    [][/\ IsCall =>
            LET E == last'.e
                P == last'.p
                old == hier[E].Parent
                touched == {E, old, hier[E].Previous, hier[E].Next, P}
                             \cup (IF P = Null THEN {} ELSE {hier[P].FirstChild})
            IN  /\ \A x \in Entities \ {E} : hier'[x].Parent = hier[x].Parent
                /\ \A x \in Entities \ touched :
                     /\ hier'[x] = hier[x]
                     /\ InPool(hpool', x) <=> InPool(hpool, x)
                     /\ x \in ltp' <=> x \in ltp
                /\ (old # Null /\ old # E /\ hier[old].Parent # Null) => InPool(hpool', old)
       /\ last'.op = "GetParent" => (Tables' = Tables /\ rot' = rot)]_vars

\* an entity was moved away from a parent that has a parent of its own and
\* is left without a child, and that parent still holds its Hierarchy
C18_Witness ==
    /\ last.op = "SetParent" /\ last.out = "done"
    /\ last.from # Null /\ last.from # last.p
    /\ InPool(hpool, last.from)
    /\ hier[last.from].Parent # Null /\ hier[last.from].FirstChild = Null
    /\ hier[last.e].Parent = last.p

\* C19: within one SetParent call the pointer to the entity's own Hierarchy
\* is not used after the Hierarchy of another entity was removed from the
\* table or newly attached to it.
C19_PointerNotUsedAfterMove ==
    [][IsCall => CallFlags(hier, hpool, ltp, last'.e, last'.p) \cap {"ref", "stale"} = {}]_vars
====
